---- MODULE Spec2Model ----
(***************************************************************************)
(* Model of the ArduPilot <-> Gazebo bridge plugin (ArduPilotPlugin.cc):   *)
(* the per-tick update OnUpdate, the receive step ReceiveServoPacket with  *)
(* its online/offline state machine and frame-counter policy, ResetPIDs,   *)
(* the PWM-to-command mapping, and the destination of SendState.           *)
(*                                                                         *)
(* One state of the model is one point between two handler invocations:    *)
(* every action is a whole handler, so every state is a tick boundary.     *)
(*                                                                         *)
(* Spec is the session of a loaded bridge.  The other specifications share *)
(* its variables and its OnUpdate and widen one input each: SpecLoad and   *)
(* SpecConfig start before Load, SpecSonar and SpecThreads split OnUpdate  *)
(* at its lock, SpecDrain follows the contents of the waiting datagrams,   *)
(* SpecActuation moves the joints, SpecPwm and SpecRate vary the frames,   *)
(* SpecNed moves the model and varies the frame offsets, SpecRange and     *)
(* SpecSensors vary the sonar messages and the declared sensors (with the  *)
(* destructor), and SpecLive adds the fairness of the world update event.  *)
(***************************************************************************)
EXTENDS Integers, Sequences, FiniteSets, TLC

VARIABLES
  arduPilotOnline,            \* ArduPilotPluginPrivate::arduPilotOnline
  connectionTimeoutCount,     \* consecutive missed receives
  connectionTimeoutMaxCount,  \* threshold read from the configuration
  fcu_frame_rate,             \* uint16_t, last frame rate stored
  fcu_frame_count,            \* uint32_t as <<high half, low half>>
  fcu_address,                \* remote address used by SendState
  fcu_port_out,               \* remote port used by SendState
  controls,                   \* std::vector<Control>
  lastControllerUpdateTime,   \* sim time of the last OnUpdate
  sockQueue,                  \* datagrams waiting in the socket: the source of each
  in_addr,                    \* SocketAPM::in_addr, source of the last datagram read
  log,                        \* messages written by the last OnUpdate
  recvOk,                     \* ReceiveServoPacket returned true in the last OnUpdate
                              \* (the tick that sets lastServoPacketRecvTime)
  applied,                    \* commands handed to the joints by the last OnUpdate
  sent,                       \* datagrams sent by the last OnUpdate
  acceptedSrc,                \* history: source of the most recently accepted datagram
  seq,                        \* history: the gap-free frame sequence fed since construction
  missedFrames,               \* the number printed by "Missed .. input frames" in the last OnUpdate
  link,                       \* history: "lost" from the OnUpdate that declared the
                              \* connection broken on, "back" after the OnUpdate that
                              \* accepted a frame again, "new" otherwise
  lastPwm,                    \* history: pkt.pwm of the frame the pending commands
                              \* come from
  loaded,                     \* Load has run
  sockBound,                  \* sock.bind succeeded in InitSockets
  updateConnection,           \* OnUpdate is registered with the world update event
  sdfControls,                \* the <control> elements of the configuration, in order
  sonarRanges,                \* std::vector<double> sonarRanges
  sonarCb,                    \* the transport thread: position of OnSonarStamped
  mutex,                      \* owner of ArduPilotPluginPrivate::mutex
  updPc,                      \* position of each thread that calls OnUpdate
  sockData,                   \* contents of the datagrams waiting in the socket, where
                              \* they are followed from their arrival on
  joints,                     \* velocity and position of the joint of each control
  actuated,                   \* what ApplyMotorForces did for each control in the last
                              \* OnUpdate
  world,                      \* model->WorldPose() and the link's WorldLinearVel()
  modelXYZToAirplaneXForwardZDown,  \* pose read from the configuration
  gazeboXYZToNED,             \* pose read from the configuration
  sonarSubs                   \* the subscriptions held: the _sensorIndex each callback
                              \* is bound to

vars == <<arduPilotOnline, connectionTimeoutCount, connectionTimeoutMaxCount,
          fcu_frame_rate, fcu_frame_count, fcu_address, fcu_port_out, controls,
          lastControllerUpdateTime, sockQueue, in_addr,
          log, recvOk, applied, sent, acceptedSrc, seq,
          missedFrames, link, lastPwm,
          loaded, sockBound, updateConnection, sdfControls,
          sonarRanges, sonarCb, mutex, updPc, sockData, joints, actuated,
          world, modelXYZToAirplaneXForwardZDown, gazeboXYZToNED, sonarSubs>>

\* what Load writes besides the session state
loadVars == <<loaded, sockBound, updateConnection, sdfControls>>

\* the range slots and the thread that writes them
sonarVars == <<sonarRanges, sonarCb, sonarSubs>>

\* the pose and velocity of the model in the world, and the two frame offsets
frameVars == <<world, modelXYZToAirplaneXForwardZDown, gazeboXYZToNED>>

\* everything but the mutex and the positions of the threads in OnUpdate
bridgeVars ==
  <<arduPilotOnline, connectionTimeoutCount, connectionTimeoutMaxCount,
    fcu_frame_rate, fcu_frame_count, fcu_address, fcu_port_out, controls,
    lastControllerUpdateTime, sockQueue, in_addr,
    log, recvOk, applied, sent, acceptedSrc, seq,
    missedFrames, link, lastPwm, loadVars, frameVars, sonarVars,
    sockData, joints, actuated>>

----------------------------------------------------------------------------
(* Bounds of the model *)

\* largest configured connectionTimeoutMaxCount
MaxThreshold == 1

\* largest simulation time stamp
MaxTime == 1

\* largest number of configured range sensors
MaxSonars == 11

\* largest number of datagrams waiting in the socket
MaxQueue == 2

\* longest gap-free frame sequence followed by the history variable seq
MaxSeq == 3

----------------------------------------------------------------------------
(* Program constants *)

MAGIC == 18458

MAX_MOTORS == 255

MAX_SERVO_CHANNELS == 16

\* sizeof(servo_packet): 2 + 2 + 4 + 16 * 2 bytes
SERVO_PACKET_SIZE == 40

\* bytes of servo_packet before pwm[]: magic, frame_rate, frame_count
SERVO_HEADER_SIZE == 8

U16Max == 65535

\* commands are held in thousandths (fixed point for the double cmd)
CmdScale == 1000

----------------------------------------------------------------------------
(* 32-bit unsigned frame counters, kept as two 16-bit halves *)

U32(hi, lo) == <<hi, lo>>

\* uint32_t fcu_frame_count = -1
U32Minus1 == U32(U16Max, U16Max)

Lt32(a, b) == a[1] < b[1] \/ (a[1] = b[1] /\ a[2] < b[2])

\* a + 1 in uint32_t arithmetic
Inc32(a) ==
  IF a[2] = U16Max
    THEN U32((a[1] + 1) % (U16Max + 1), 0)
    ELSE U32(a[1], a[2] + 1)

\* a - b in uint32_t arithmetic
Sub32(a, b) ==
  LET lo == a[2] - b[2]
      borrow == IF lo < 0 THEN 1 ELSE 0
  IN  U32((a[1] - b[1] - borrow) % (U16Max + 1), lo % (U16Max + 1))

----------------------------------------------------------------------------
(* double arithmetic on values held in thousandths.  The quotients the bridge
   computes can have a zero divisor, and IEEE 754 division then gives an
   infinity or, for 0 / 0, a NaN *)

\* stands for +infinity: above every finite value of the model
PosInf == 1000000000

\* stands for -infinity
NegInf == -1000000000

\* stands for NaN: no comparison with it is true in the code, so every
\* operator below tests for it first
NaN == 2000000000

\* a / b for a finite or NaN and b finite
FDiv(a, b) ==
  IF a = NaN THEN NaN
  ELSE IF b = 0
    THEN (IF a = 0 THEN NaN ELSE IF a > 0 THEN PosInf ELSE NegInf)
  ELSE IF b < 0 THEN (0 - a) \div (0 - b)
  ELSE a \div b

\* a - b for a finite
FSub(a, b) ==
  IF b = NaN THEN NaN
  ELSE IF b = PosInf THEN NegInf
  ELSE IF b = NegInf THEN PosInf
  ELSE a - b

----------------------------------------------------------------------------
(* Inputs *)

\* sources of inbound datagrams: <<address, port>>
Endpoints == { <<"10.0.0.1", 5760>>, <<"10.0.0.2", 5761>> }

\* in_addr of a socket that has read nothing (zero-initialised sockaddr_in)
NoAddr == <<"0.0.0.0", 0>>

FrameCounts == { U32(0, 0), U32(0, 1), U32(0, 2), U32Minus1 }

FrameRates == { 50 }

PwmArrays ==
  { [c \in 0..(MAX_SERVO_CHANNELS - 1) |-> 1500],
    [c \in 0..(MAX_SERVO_CHANNELS - 1) |-> IF c = 0 THEN 2000 ELSE 1000] }

\* values of the local servo_packet pkt after the receive calls
Packets ==
  [magic : {MAGIC, 0}, frame_rate : FrameRates,
   frame_count : FrameCounts, pwm : PwmArrays]

\* byte lengths of inbound datagrams: header only, whole frame.
\* recv() copies that many bytes into pkt; the bytes of pkt beyond them keep
\* whatever the uninitialised local held, i.e. any value.
RecvSizes == { SERVO_HEADER_SIZE, SERVO_PACKET_SIZE }

Times == 0..MaxTime

\* lastPwm while no command comes from a frame
NoPwm == [c \in 0..(MAX_SERVO_CHANNELS - 1) |-> 0]

\* the transport thread is outside OnSonarStamped
CbIdle == [pc |-> "idle", index |-> 0, range |-> 0]

\* the threads from which the host calls OnUpdate
UpdateThreads == { 1, 2 }

\* a joint that stands still at its zero position
JointRest == [vel |-> 0, pos |-> 0]

----------------------------------------------------------------------------
(* Control channels *)

\* class Control with its default member initialisers
\* pid is the state of the PID controller: "init" as Control() leaves it,
\* "run" once pid.Update has fed it an error
DefaultControl ==
  [channel |-> 0, cmd |-> 0, multiplier |-> 1, offset |-> 0,
   servo_min |-> 1000, servo_max |-> 2000,
   type |-> "", useForce |-> TRUE, pid |-> "init",
   rotorVelocitySlowdownSim |-> 10]

\* the control of a <control> element that gives its channel and joint only:
\* velocity control, no slowdown
VelocityControl ==
  [DefaultControl EXCEPT !.type = "VELOCITY", !.rotorVelocitySlowdownSim = 1]

\* the channels declared by the configurations of the model
ControlConfigs ==
  { << VelocityControl, [VelocityControl EXCEPT !.channel = 1] >> }

\* ignition::math::clamp is min and max by comparison: a NaN passes through
Clamp(v, lo, hi) ==
  IF v = NaN THEN NaN
  ELSE IF v < lo THEN lo ELSE IF v > hi THEN hi ELSE v

\* faulty variant: the raw command is not bounded, it extrapolates outside
\* [servo_min, servo_max]
PwmToCmd_NoClamp(c, pwm) ==
  LET raw_cmd == FDiv((pwm - c.servo_min) * CmdScale, c.servo_max - c.servo_min)
  IN  IF raw_cmd \in {NaN, PosInf, NegInf} THEN raw_cmd
      ELSE c.multiplier * (raw_cmd + c.offset * CmdScale)

\* ReceiveServoPacket, the body of the channel loop: pwm -> cmd
PwmToCmd(c, pwm) ==
  LET raw_cmd == FDiv((pwm - c.servo_min) * CmdScale, c.servo_max - c.servo_min)
      bounded == Clamp(raw_cmd, 0, CmdScale)
  IN  IF bounded = NaN THEN NaN
      ELSE c.multiplier * (bounded + c.offset * CmdScale)

\* pkt.pwm[channel].  The only test before the read is channel <
\* MAX_SERVO_CHANNELS on an int, so a negative channel reads in front of the
\* array, outside its bounds: any value, held in pkt.oob
PwmSlot(pkt, channel) ==
  IF channel \in 0..(MAX_SERVO_CHANNELS - 1) THEN pkt.pwm[channel] ELSE pkt.oob

\* ReceiveServoPacket, the channel loop over controls
MapCommands(ctrls, pkt) ==
  [i \in DOMAIN ctrls |->
     IF (i - 1) < MAX_MOTORS /\ ctrls[i].channel < MAX_SERVO_CHANNELS
       THEN [ctrls[i] EXCEPT !.cmd = PwmToCmd(ctrls[i], PwmSlot(pkt, ctrls[i].channel))]
       ELSE ctrls[i]]

\* messages of the channel loop
MapLog(ctrls) ==
  IF \E i \in DOMAIN ctrls :
       (i - 1) < MAX_MOTORS /\ ~(ctrls[i].channel < MAX_SERVO_CHANNELS)
    THEN {"ChannelRange"} ELSE {}

\* faulty variant: controls[i].pid.Reset() runs too
ResetPIDs_ResetsPid(ctrls) ==
  [i \in DOMAIN ctrls |-> [ctrls[i] EXCEPT !.cmd = 0, !.pid = "init"]]

\* faulty variant: the commands are left as they are
ResetPIDs_KeepsCommands(ctrls) == ctrls

ResetPIDs(ctrls) == [i \in DOMAIN ctrls |-> [ctrls[i] EXCEPT !.cmd = 0]]

AllCmdZero(ctrls) == \A i \in DOMAIN ctrls : ctrls[i].cmd = 0

Cmds(ctrls) == [i \in DOMAIN ctrls |-> ctrls[i].cmd]

Pids(ctrls) == [i \in DOMAIN ctrls |-> ctrls[i].pid]

----------------------------------------------------------------------------
(* The socket (SocketAPM, Socket.h) *)

\* in_addr after sock.recv(): the source of the datagram it read, unchanged
\* when the wait ended with nothing to read
RecvAddr(queue, addr) == IF queue = <<>> THEN addr ELSE Head(queue)

\* in_addr after the drain loop has read every datagram that was waiting
DrainAddr(queue, addr) == IF queue = <<>> THEN addr ELSE queue[Len(queue)]

\* a datagram from one of srcs reaches the bound socket
ArriveFrom(srcs) ==
  /\ sockBound
  /\ Len(sockQueue) < MaxQueue
  /\ \E src \in srcs : sockQueue' = Append(sockQueue, src)
  /\ UNCHANGED <<arduPilotOnline, connectionTimeoutCount, connectionTimeoutMaxCount,
                 fcu_frame_rate, fcu_frame_count, fcu_address, fcu_port_out,
                 controls, lastControllerUpdateTime,
                 in_addr, log, recvOk, applied, sent, acceptedSrc, seq,
                 missedFrames, link, lastPwm, loadVars, frameVars, sonarVars, mutex,
                 updPc, sockData, joints, actuated>>

\* a datagram reaches the socket
Arrive == ArriveFrom(Endpoints)

----------------------------------------------------------------------------
(* ReceiveServoPacket *)

\* faulty variant: the threshold test off by one (>= for >)
TimeoutExceeded_AtThreshold(count, max) == count >= max

\* faulty variant: the threshold test one miss late
TimeoutExceeded_Late(count, max) == count > max + 1

\* ++connectionTimeoutCount > connectionTimeoutMaxCount
TimeoutExceeded(count, max) == count > max

\* faulty variant: the magic is not checked
MagicOk_Unchecked(pkt) == TRUE

\* magic != pkt.magic is the rejection
MagicOk(pkt) == pkt.magic = MAGIC

\* faulty variant: the duplicate test is missing
FrameOrder_NoDuplicate(count, last) ==
  IF Lt32(count, last) THEN "reset"
  ELSE IF count # Inc32(last) THEN "missed"
  ELSE "next"

\* faulty variant: the frame after the last accepted one is taken for a
\* duplicate too
FrameOrder_NextIsDuplicate(count, last) ==
  IF Lt32(count, last) THEN "reset"
  ELSE IF count = last \/ count = Inc32(last) THEN "duplicate"
  ELSE "missed"

\* faulty variant: a frame count below the last accepted one is skipped like
\* a duplicate
FrameOrder_LowerIsDuplicate(count, last) ==
  IF Lt32(count, last) \/ count = last THEN "duplicate"
  ELSE IF count # Inc32(last) THEN "missed"
  ELSE "next"

\* the frame rate / frame order chain of if .. else if
FrameOrder(count, last) ==
  IF Lt32(count, last) THEN "reset"
  ELSE IF count = last THEN "duplicate"
  ELSE IF count # Inc32(last) THEN "missed"
  ELSE "next"

\* faulty variant: a timeout changes nothing
OnTimeout_Ignored(r) == r

\* faulty variant: going offline leaves the count of missed receives standing
OnTimeout_KeepsCount(r) ==
  IF r.online THEN
    IF TimeoutExceeded(r.count + 1, connectionTimeoutMaxCount)
      THEN [r EXCEPT !.count = r.count + 1, !.online = FALSE,
                     !.log = @ \cup {"Broken"},
                     !.ctrls = ResetPIDs(r.ctrls)]
      ELSE [r EXCEPT !.count = r.count + 1]
  ELSE r

\* recvSize == -1 while online: count the miss, go offline past the threshold
OnTimeout(r) ==
  IF r.online THEN
    IF TimeoutExceeded(r.count + 1, connectionTimeoutMaxCount)
      THEN [r EXCEPT !.count = 0, !.online = FALSE,
                     !.log = @ \cup {"Broken"},
                     !.ctrls = ResetPIDs(r.ctrls)]
      ELSE [r EXCEPT !.count = r.count + 1]
  ELSE r

\* faulty variant: a wrong magic drops the connection
OnBadMagic_GoesOffline(r) ==
  [r EXCEPT !.log = @ \cup {"BadMagic"}, !.online = FALSE]

\* wrong magic: warn and return false
OnBadMagic(r) == [r EXCEPT !.log = @ \cup {"BadMagic"}]

\* faulty variant: the duplicate branch clears the timeout count before returning
OnDuplicate_Resets(r) == [r EXCEPT !.log = @ \cup {"Duplicate"}, !.count = 0]

\* duplicate frame count: warn and return false
OnDuplicate(r) == [r EXCEPT !.log = @ \cup {"Duplicate"}]

\* the number streamed into the "Missed .. input frames" warning
MissedPrinted(last, count) == Sub32(last, count)

\* faulty variant: an accepted frame leaves the pending commands as they were
OnAccept_KeepsCommands(r, pkt, order) ==
  [r EXCEPT
     !.fcount = pkt.frame_count,
     !.count = 0,
     !.online = TRUE,
     !.log = @ \cup (IF order = "reset" THEN {"Reset"} ELSE {})
               \cup (IF order = "missed" /\ r.online THEN {"Missed"} ELSE {})
               \cup (IF ~r.online THEN {"Connected"} ELSE {})
               \cup MapLog(r.ctrls),
     !.missed = IF order = "missed" /\ r.online
                  THEN MissedPrinted(r.fcount, pkt.frame_count) ELSE @,
     !.accepted = TRUE,
     !.ret = TRUE]

\* the frame is taken: store its count, clear the timeout count, go online,
\* compute the commands, return true
OnAccept(r, pkt, order) ==
  [r EXCEPT
     !.fcount = pkt.frame_count,
     !.count = 0,
     !.online = TRUE,
     !.ctrls = MapCommands(r.ctrls, pkt),
     !.log = @ \cup (IF order = "reset" THEN {"Reset"} ELSE {})
               \cup (IF order = "missed" /\ r.online THEN {"Missed"} ELSE {})
               \cup (IF ~r.online THEN {"Connected"} ELSE {})
               \cup MapLog(r.ctrls),
     !.missed = IF order = "missed" /\ r.online
                  THEN MissedPrinted(r.fcount, pkt.frame_count) ELSE @,
     !.accepted = TRUE,
     !.ret = TRUE]

\* The whole receive step on the current state.  recvSize and pkt are the
\* values of the locals after the last successful recv of this call; they are
\* not read when nothing was waiting (recvSize == -1), and recvSize is
\* compared with -1 only.
\* The result holds the new value of everything the step writes, and in ret
\* the value it returns.
ReceiveServoPacket(recvSize, pkt) ==
  LET n == Len(sockQueue)
      first == RecvAddr(sockQueue, in_addr)
      r0 == [online |-> arduPilotOnline, count |-> connectionTimeoutCount,
             rate |-> fcu_frame_rate, fcount |-> fcu_frame_count,
             ctrls |-> controls,
             addr |-> first[1], port |-> first[2],
             in_addr |-> DrainAddr(sockQueue, in_addr),
             log |-> IF n > 1 THEN {"Drained"} ELSE {},
             missed |-> U32(0, 0),
             accepted |-> FALSE, ret |-> FALSE]
  IN
  IF n = 0 THEN OnTimeout(r0)
  ELSE IF ~MagicOk(pkt) THEN OnBadMagic(r0)
  ELSE
    LET order == FrameOrder(pkt.frame_count, fcu_frame_count)
        r1 == [r0 EXCEPT !.rate = pkt.frame_rate]
    IN IF order = "duplicate" THEN OnDuplicate(r1)
                              ELSE OnAccept(r1, pkt, order)

----------------------------------------------------------------------------
(* History of the gap-free sequence of frames fed to a new bridge *)

SeqOff == [on |-> FALSE, last |-> U32(0, 0), delivered |-> 0, accepted |-> 0]

SeqStart == [SeqOff EXCEPT !.on = TRUE]

\* seq stays on while every receive so far read exactly one whole frame with
\* the right magic and a count one above the frame before it
SeqNext(recvSize, pkt, ret) ==
  IF /\ seq.on
     /\ seq.delivered < MaxSeq
     /\ Len(sockQueue) = 1
     /\ recvSize = SERVO_PACKET_SIZE
     /\ pkt.magic = MAGIC
     /\ (seq.delivered = 0 \/ pkt.frame_count = Inc32(seq.last))
    THEN [on |-> TRUE, last |-> pkt.frame_count,
          delivered |-> seq.delivered + 1,
          accepted |-> seq.accepted + (IF ret THEN 1 ELSE 0)]
    ELSE SeqOff

----------------------------------------------------------------------------
(* OnUpdate *)

\* faulty variant: no command reaches a joint
ApplyMotorForces_Skipped(ctrls) == << >>

\* ApplyMotorForces: the command each control hands to its joint
ApplyMotorForces(ctrls) == Cmds(ctrls)

\* faulty variant: pid.Update runs for every force-driven control, effort
\* controls included
PidUpdate_ForceDriven(ctrls) ==
  [i \in DOMAIN ctrls |->
     IF ctrls[i].useForce THEN [ctrls[i] EXCEPT !.pid = "run"] ELSE ctrls[i]]

\* ApplyMotorForces: pid.Update runs for the force-driven velocity and
\* position controls only
PidUpdate(ctrls) ==
  [i \in DOMAIN ctrls |->
     IF ctrls[i].useForce /\ ctrls[i].type \in {"VELOCITY", "POSITION"}
       THEN [ctrls[i] EXCEPT !.pid = "run"]
       ELSE ctrls[i]]

\* ApplyMotorForces, one control: the joint setter called, the error fed to
\* pid.Update when it runs, and the command when it is the argument of the
\* setter (the argument is the output of pid.Update otherwise)
JointCall(c, j) ==
  LET viaPid(error) == [set |-> "SetForce", pidError |-> << error >>, arg |-> << >>]
      direct(setter) == [set |-> setter, pidError |-> << >>, arg |-> << c.cmd >>]
  IN
  IF c.useForce THEN
    IF c.type = "VELOCITY"
      THEN viaPid(FSub(j.vel, FDiv(c.cmd, c.rotorVelocitySlowdownSim)))
    ELSE IF c.type = "POSITION" THEN viaPid(FSub(j.pos, c.cmd))
    ELSE IF c.type = "EFFORT" THEN direct("SetForce")
    ELSE [set |-> "none", pidError |-> << >>, arg |-> << >>]
  ELSE
    IF c.type = "VELOCITY" THEN direct("SetVelocity")
    ELSE IF c.type = "POSITION" THEN direct("SetPosition")
    ELSE IF c.type = "EFFORT" THEN direct("SetForce")
    ELSE [set |-> "none", pidError |-> << >>, arg |-> << >>]

\* ApplyMotorForces, the loop over controls
JointCalls(ctrls, js) == [i \in DOMAIN ctrls |-> JointCall(ctrls[i], js[i])]

\* faulty variant: the datagram is sent a second time
SendState_Twice(addr, port, timestamp, ranges) ==
  LET d == [addr |-> addr, port |-> port, timestamp |-> timestamp,
            rng |-> {}]
  IN  << d, d >>

\* faulty variant: every rng_ key carries the first slot
FallThrough_FirstSlot(k, ranges) == { <<j, ranges[1]>> : j \in 1..k }

\* faulty variant: every sensor count up to ten enters the switch at its own
\* label
RangeCase_NoCap(n) == IF n \in 1..10 THEN n ELSE 0

\* SendState, switch (sonarRanges.size()): the label control jumps to, as the
\* index of the first rng_ key written there; 0 is default
RangeCase(n) == IF n \in 6..10 THEN 6 ELSE IF n \in 1..5 THEN n ELSE 0

\* the cases fall through from label k down to case 1: rng_k .. rng_1, each
\* with sonarRanges[k - 1]
RECURSIVE FallThrough(_, _)
FallThrough(k, ranges) ==
  IF k = 0 THEN {}
  ELSE { <<k, ranges[k]>> } \cup FallThrough(k - 1, ranges)

\* the rng_ members of the JSON object: <<index, value>>
RangeFields(ranges) == FallThrough(RangeCase(Len(ranges)), ranges)

\* the indices k of the rng_k keys of a datagram
RngKeys(d) == { f[1] : f \in d.rng }

\* ignition::math::Vector3d with whole coordinates
Vec(x, y, z) == << x, y, z >>
VAdd(a, b) == << a[1] + b[1], a[2] + b[2], a[3] + b[3] >>
VSub(a, b) == << a[1] - b[1], a[2] - b[2], a[3] - b[3] >>

\* ignition::math::Quaterniond as the rotation matrix it stands for (rows);
\* the rotations of the model are by multiples of a quarter turn
QIdentity == << <<1, 0, 0>>, <<0, 1, 0>>, <<0, 0, 1>> >>
\* Quaterniond(IGN_PI, 0, 0): half a turn about x
QRollPi == << <<1, 0, 0>>, <<0, -1, 0>>, <<0, 0, -1>> >>
\* Quaterniond(0, 0, IGN_PI / 2): a quarter turn about z
QYawHalfPi == << <<0, -1, 0>>, <<1, 0, 0>>, <<0, 0, 1>> >>

\* the scalar product of two vectors
Dot(a, b) == a[1] * b[1] + a[2] * b[2] + a[3] * b[3]

\* Quaternion::RotateVector
RotateVector(q, v) == << Dot(q[1], v), Dot(q[2], v), Dot(q[3], v) >>

\* Quaternion::Inverse
QInverse(q) ==
  << << q[1][1], q[2][1], q[3][1] >>,
     << q[1][2], q[2][2], q[3][2] >>,
     << q[1][3], q[2][3], q[3][3] >> >>

\* Quaternion::RotateVectorReverse
RotateVectorReverse(q, v) == RotateVector(QInverse(q), v)

\* ignition::math::Pose3d
Pose3d(p, q) == [p |-> p, q |-> q]

\* Pose3d::operator+, its position (CoordPositionAdd): the origin of a, given
\* in the frame b, seen from b's parent
CoordPositionAdd(a, b) == VAdd(b.p, RotateVector(b.q, a.p))

\* faulty variant: the position is not turned into b's frame
CoordPositionSub_NoRotation(p, b) == VSub(p, b.p)

\* Pose3d::operator-, its position (CoordPositionSub): the point p seen from
\* the frame b
CoordPositionSub(p, b) == RotateVectorReverse(b.q, VSub(p, b.p))

\* Load: gazeboXYZToNED unless the configuration gives another
DefaultGazeboXYZToNED == Pose3d(Vec(0, 0, 0), QRollPi)

\* Pose3d(): modelXYZToAirplaneXForwardZDown unless the configuration gives
\* another
ZeroPose == Pose3d(Vec(0, 0, 0), QIdentity)

\* the model at the origin of the world, at rest
WorldRest == [pose |-> ZeroPose, vel |-> Vec(0, 0, 0)]

\* SendState, NEDToModelXForwardZUp.Pos()
NEDToModelXForwardZUp ==
  CoordPositionSub(
    CoordPositionAdd(modelXYZToAirplaneXForwardZDown, world.pose),
    gazeboXYZToNED)

\* SendState, velNEDFrame
velNEDFrame == RotateVectorReverse(gazeboXYZToNED.q, world.vel)

\* SendState: one datagram to fcu_address : fcu_port_out, with the simulation
\* time, the position and velocity of the model in the NED frame, and the
\* range fields
SendState(addr, port, timestamp, ranges) ==
  << [addr |-> addr, port |-> port, timestamp |-> timestamp,
      position |-> NEDToModelXForwardZUp,
      velocity |-> velNEDFrame,
      rng |-> RangeFields(ranges)] >>

\* faulty variant: a call at the time of the last one also receives
PositiveStep_OrZero(dt) == dt >= 0

\* OnUpdate, if (dt > 0)
PositiveStep(dt) == dt > 0

\* One OnUpdate at simulation time curTime; recvSize and pkt as for
\* ReceiveServoPacket.
Update(curTime, recvSize, pkt) ==
  LET dt == curTime - lastControllerUpdateTime IN
  /\ lastControllerUpdateTime' = curTime
  /\ UNCHANGED <<connectionTimeoutMaxCount, loadVars, frameVars, sonarVars, joints>>
  /\ IF PositiveStep(dt) THEN
       \E r \in {ReceiveServoPacket(recvSize, pkt)} :
       /\ arduPilotOnline' = r.online
       /\ connectionTimeoutCount' = r.count
       /\ fcu_frame_rate' = r.rate
       /\ fcu_frame_count' = r.fcount
       /\ fcu_address' = r.addr
       /\ fcu_port_out' = r.port
       /\ controls' = IF r.online THEN PidUpdate(r.ctrls) ELSE r.ctrls
       /\ in_addr' = r.in_addr
       /\ sockQueue' = <<>>
       /\ sockData' = <<>>
       /\ log' = r.log
       /\ recvOk' = r.ret
       /\ applied' = IF r.online THEN ApplyMotorForces(r.ctrls) ELSE <<>>
       /\ actuated' = IF r.online THEN JointCalls(r.ctrls, joints) ELSE <<>>
       /\ sent' = IF r.online
                    THEN SendState(r.addr, r.port, curTime, sonarRanges)
                    ELSE <<>>
       /\ missedFrames' = r.missed
       /\ link' = IF "Broken" \in r.log THEN "lost"
                  ELSE IF link = "lost"
                    THEN (IF r.accepted THEN "back" ELSE "lost")
                  ELSE "new"
       /\ lastPwm' = IF "Broken" \in r.log THEN NoPwm
                     ELSE IF r.accepted THEN pkt.pwm ELSE lastPwm
       /\ acceptedSrc' =
            IF r.accepted THEN sockQueue[Len(sockQueue)] ELSE acceptedSrc
       /\ seq' = SeqNext(recvSize, pkt, r.ret)
     ELSE
       /\ log' = {}
       /\ recvOk' = FALSE
       /\ applied' = <<>>
       /\ actuated' = <<>>
       /\ sent' = <<>>
       /\ missedFrames' = U32(0, 0)
       /\ link' = IF link = "lost" THEN "lost" ELSE "new"
       /\ UNCHANGED <<arduPilotOnline, connectionTimeoutCount, fcu_frame_rate,
                      fcu_frame_count, fcu_address, fcu_port_out, controls,
                      in_addr, sockQueue, sockData,
                      acceptedSrc, seq, lastPwm>>

\* a packet value that stands for "not read" when nothing was received
NoPacket == CHOOSE p \in Packets : TRUE

\* the body of OnUpdate, run with the mutex held, when the datagrams that
\* wait have their lengths in sizes and their contents in pkts
OnUpdateLocked(sizes, pkts) ==
  \E curTime \in Times :
    IF PositiveStep(curTime - lastControllerUpdateTime) /\ sockQueue # <<>>
      THEN \E recvSize \in sizes, pkt \in pkts :
             Update(curTime, recvSize, pkt)
      ELSE Update(curTime, -1, NoPacket)

\* the world update event calls OnUpdate once it is registered; the whole
\* call, from taking the mutex to releasing it
OnUpdateWith(sizes, pkts) ==
  /\ updateConnection
  /\ mutex = "none"
  /\ OnUpdateLocked(sizes, pkts)
  /\ UNCHANGED <<mutex, updPc>>

OnUpdate == OnUpdateWith(RecvSizes, Packets)

----------------------------------------------------------------------------
(* The bridge after construction and a successful Load *)

\* what the constructor and the member initialisers leave, and the variables
\* of the model that describe one OnUpdate or the history
Constructed ==
  /\ arduPilotOnline = FALSE
  /\ connectionTimeoutCount = 0
  /\ fcu_frame_rate = 0
  /\ fcu_frame_count = U32Minus1
  /\ fcu_address = "nullptr"
  /\ fcu_port_out = 0
  /\ lastControllerUpdateTime = 0
  /\ sockQueue = <<>>
  /\ in_addr = NoAddr
  /\ log = {}
  /\ recvOk = FALSE
  /\ applied = <<>>
  /\ sent = <<>>
  /\ acceptedSrc = NoAddr
  /\ seq = SeqStart
  /\ missedFrames = U32(0, 0)
  /\ link = "new"
  /\ lastPwm = NoPwm
  /\ sonarCb = CbIdle
  /\ mutex = "none"
  /\ updPc = [t \in UpdateThreads |-> "out"]
  /\ sockData = <<>>
  /\ actuated = <<>>

\* what LoadSonarSensors binds for n <sensor> elements whose <index> are
\* 1, 2, .., n in this order: OnSonarStamped(_1, sensorId.index - 1)
BoundInOrder(n) == [i \in 1..n |-> i - 1]

\* a <control> element whose joint the model has
Found(control) == [control |-> control, jointFound |-> TRUE]

\* LoadSonarSensors: one range slot per <sensor> element, each -1.0
LoadSonarSensors(n) == [i \in 1..n |-> -1]

\* the bridge after a Load that found every joint of one of configs, bound
\* the sensor callbacks as one of subs, read one of modelOffsets and one of
\* nedOffsets, and bound its socket; the model is in one of worlds
InitIn(configs, subs, worlds, modelOffsets, nedOffsets) ==
  /\ Constructed
  /\ connectionTimeoutMaxCount \in 0..MaxThreshold
  /\ controls \in configs
  /\ sdfControls = [i \in DOMAIN controls |-> Found(controls[i])]
  /\ joints = [i \in DOMAIN controls |-> JointRest]
  /\ sonarSubs \in subs
  /\ sonarRanges = LoadSonarSensors(Len(sonarSubs))
  /\ world \in worlds
  /\ modelXYZToAirplaneXForwardZDown \in modelOffsets
  /\ gazeboXYZToNED \in nedOffsets
  /\ loaded = TRUE
  /\ sockBound = TRUE
  /\ updateConnection = TRUE

\* the bridge after a Load that found every joint of one of configs, has one
\* of counts range sensors with <index> 1, 2, .. and the default frame
\* offsets, and bound its socket
InitWith(configs, counts) ==
  InitIn(configs, { BoundInOrder(n) : n \in counts }, { WorldRest },
         { ZeroPose }, { DefaultGazeboXYZToNED })

Init == InitWith(ControlConfigs, {0})

Next == Arrive \/ OnUpdate

Spec == Init /\ [][Next]_vars

----------------------------------------------------------------------------
(* Load, from the constructed plugin on *)

\* the controller types ApplyMotorForces knows
ControlTypes == { "VELOCITY", "POSITION", "EFFORT" }

\* faulty variant: the <type> of the element is taken as it is written
ControlType_Unchecked(type) == type

\* LoadControlChannels, control.type: "" stands for an element without
\* <type>; that and every unrecognised type become VELOCITY
ControlType(type) ==
  IF type = "" THEN "VELOCITY"
  ELSE IF type \notin ControlTypes THEN "VELOCITY"
  ELSE type

\* faulty variant: rotorVelocitySlowdownSim is taken as it is written
Slowdown_Unchecked(value) == value

\* LoadControlChannels, control.rotorVelocitySlowdownSim: zero becomes 1.0
Slowdown(value) == IF value = 0 THEN 1 ELSE value

\* LoadControlChannels, one <control> element whose joint is found: the
\* control pushed for the values the element gives (an element that is
\* absent gives the default of its Get).  The channel, multiplier, offset,
\* servo_min and servo_max are stored as they are read.
ConfigureControl(element) ==
  [element EXCEPT
     !.type = ControlType(element.type),
     !.rotorVelocitySlowdownSim = Slowdown(element.rotorVelocitySlowdownSim)]

\* LoadControlChannels: the loop over the <control> elements pushes each
\* control whose joint is found, and returns from the function at the first
\* joint that GetJoint does not find
RECURSIVE LoadControlChannels(_)
LoadControlChannels(sdf) ==
  IF sdf = <<>> THEN <<>>
  ELSE IF ~Head(sdf).jointFound THEN <<>>
  ELSE << ConfigureControl(Head(sdf).control) >> \o LoadControlChannels(Tail(sdf))

\* faulty variant: OnUpdate is registered whatever InitSockets returned
LoadRegisters_Always(bindOk) == TRUE

\* Load returns before ConnectWorldUpdateBegin when InitSockets failed
LoadRegisters(bindOk) == bindOk

\* the <control> lists of the configurations: two channels, each with a
\* joint the model has or has not
SdfConfigs ==
  { << [control |-> VelocityControl, jointFound |-> f0],
       [control |-> [VelocityControl EXCEPT !.channel = 1], jointFound |-> f1] >> :
      f0 \in BOOLEAN, f1 \in BOOLEAN }

\* numbers of <sensor> elements of the configurations
SdfSensorCounts == { 0 }

\* Load on a plugin element whose <control> list is one of sdfs
LoadFrom(sdfs) ==
  /\ ~loaded
  /\ \E sdf \in sdfs, nSensors \in SdfSensorCounts, bindOk \in BOOLEAN,
        maxCount \in 0..MaxThreshold :
       /\ loaded' = TRUE
       /\ sdfControls' = sdf
       /\ controls' = controls \o LoadControlChannels(sdf)
       /\ joints' = joints \o [i \in DOMAIN LoadControlChannels(sdf) |-> JointRest]
       /\ sonarRanges' = sonarRanges \o LoadSonarSensors(nSensors)
       /\ sonarSubs' = sonarSubs \o BoundInOrder(nSensors)
       /\ modelXYZToAirplaneXForwardZDown' = ZeroPose
       /\ gazeboXYZToNED' = DefaultGazeboXYZToNED
       /\ lastControllerUpdateTime' = 0
       /\ sockBound' = bindOk
       /\ connectionTimeoutMaxCount' =
            IF bindOk THEN maxCount ELSE connectionTimeoutMaxCount
       /\ updateConnection' = LoadRegisters(bindOk)
  /\ UNCHANGED <<arduPilotOnline, connectionTimeoutCount,
                 fcu_frame_rate, fcu_frame_count, fcu_address, fcu_port_out,
                 sockQueue, in_addr, log, recvOk, applied, sent, acceptedSrc, seq,
                 missedFrames, link, lastPwm, sonarCb, mutex,
                 updPc, sockData, actuated, world>>

Load == LoadFrom(SdfConfigs)

\* the plugin as constructed: no control, no range slot, nothing registered
InitLoad ==
  /\ Constructed
  /\ connectionTimeoutMaxCount = 0
  /\ controls = <<>>
  /\ joints = <<>>
  /\ sdfControls = <<>>
  /\ sonarRanges = <<>>
  /\ sonarSubs = <<>>
  /\ world = WorldRest
  /\ modelXYZToAirplaneXForwardZDown = ZeroPose
  /\ gazeboXYZToNED = ZeroPose
  /\ loaded = FALSE
  /\ sockBound = FALSE
  /\ updateConnection = FALSE

\* whole frames with the right magic
LoadPackets ==
  [magic : {MAGIC}, frame_rate : FrameRates,
   frame_count : { U32(0, 0), U32(0, 1) },
   pwm : { [c \in 0..(MAX_SERVO_CHANNELS - 1) |-> 1500] }]

ArriveLoad == ArriveFrom({ <<"10.0.0.1", 5760>> })

OnUpdateLoad == OnUpdateWith({SERVO_PACKET_SIZE}, LoadPackets)

NextLoad == Load \/ ArriveLoad \/ OnUpdateLoad

SpecLoad == InitLoad /\ [][NextLoad]_vars

----------------------------------------------------------------------------
(* Load on <control> elements that give any type, slowdown, PWM range and
   channel, and the bridge that results *)

\* <type> of the elements: absent, the three types, an unknown one
SdfTypes == { "", "VELOCITY", "POSITION", "EFFORT", "SPEED" }

\* <rotorVelocitySlowdownSim> of the elements
SdfSlowdowns == { 0, 1, 10 }

\* <servo_min> and <servo_max> of the elements: in order, equal, reversed
SdfServoRanges == { <<1000, 2000>>, <<1500, 1500>>, <<2000, 1000>> }

\* the channel attribute of the elements, as atoi returns it
SdfChannels == { -1, 0, MAX_SERVO_CHANNELS - 1, MAX_SERVO_CHANNELS }

\* one <control> element with a joint the model has, which gives one of the
\* four and leaves the others out
ConfigSdfs ==
  { << Found([VelocityControl EXCEPT !.type = ty]) >> : ty \in SdfTypes }
  \cup
  { << Found([VelocityControl EXCEPT !.rotorVelocitySlowdownSim = sl]) >> :
      sl \in SdfSlowdowns }
  \cup
  { << Found([VelocityControl EXCEPT !.servo_min = range[1],
                                     !.servo_max = range[2]]) >> :
      range \in SdfServoRanges }
  \cup
  { << Found([VelocityControl EXCEPT !.channel = ch]) >> : ch \in SdfChannels }

\* whole frames with the right magic, PWM 1500 or 2000 on every channel; oob
\* is what a read in front of pwm[] finds
ConfigPackets ==
  [magic : {MAGIC}, frame_rate : FrameRates,
   frame_count : { U32(0, 0), U32(0, 1) },
   pwm : { [c \in 0..(MAX_SERVO_CHANNELS - 1) |-> v] : v \in {1500, 2000} },
   oob : { 0, 1500 }]

LoadConfig == LoadFrom(ConfigSdfs)

ArriveConfig == ArriveFrom({ <<"10.0.0.1", 5760>> })

OnUpdateConfig == OnUpdateWith({SERVO_PACKET_SIZE}, ConfigPackets)

NextConfig == LoadConfig \/ ArriveConfig \/ OnUpdateConfig

SpecConfig == InitLoad /\ [][NextConfig]_vars

----------------------------------------------------------------------------
(* The range sensors: OnSonarStamped runs on the transport thread, OnUpdate
   on the world update thread.  Here OnUpdate is two steps, taking the mutex
   and the rest of the call, and OnSonarStamped is two steps, reading the
   message and storing the range. *)

\* <index> of the sensors whose topic has a publisher
SonarPublishers == { 1, 2 }

\* ranges carried by the sonar messages
RangeValues == { 5 }

\* whole frames with the right magic
SonarPackets ==
  [magic : {MAGIC}, frame_rate : FrameRates,
   frame_count : { U32(0, 0) },
   pwm : { [c \in 0..(MAX_SERVO_CHANNELS - 1) |-> 1500] }]

\* OnSonarStamped up to the assignment, for a message of one of the
\* publishers that carries one of ranges: the fields of the message are read;
\* the callback is bound to sensorId.index - 1 and takes no lock
OnSonarStampedFrom(publishers, ranges) ==
  /\ loaded
  /\ sonarCb.pc = "idle"
  /\ \E sub \in publishers \cap DOMAIN sonarSubs, range \in ranges :
       sonarCb' = [pc |-> "write", index |-> sonarSubs[sub], range |-> range]
  /\ UNCHANGED <<arduPilotOnline, connectionTimeoutCount, connectionTimeoutMaxCount,
                 fcu_frame_rate, fcu_frame_count, fcu_address, fcu_port_out,
                 controls, lastControllerUpdateTime, sockQueue,
                 in_addr, log, recvOk, applied, sent, acceptedSrc, seq,
                 missedFrames, link, lastPwm, loadVars, frameVars, sonarRanges, sonarSubs, mutex,
                 updPc, sockData, joints, actuated>>

OnSonarStampedEnter == OnSonarStampedFrom(SonarPublishers, RangeValues)

\* sonarRanges[_sensorIndex] = range; operator[] checks nothing, and a write
\* outside the vector is undefined behaviour: it may hit any slot or none
OnSonarStampedWrite ==
  /\ sonarCb.pc = "write"
  /\ IF sonarCb.index + 1 \in DOMAIN sonarRanges
       THEN sonarRanges' =
              [sonarRanges EXCEPT ![sonarCb.index + 1] = sonarCb.range]
       ELSE sonarRanges' \in
              { sonarRanges } \cup
              { [sonarRanges EXCEPT ![k] = sonarCb.range] :
                  k \in DOMAIN sonarRanges }
  /\ sonarCb' = CbIdle
  /\ UNCHANGED <<arduPilotOnline, connectionTimeoutCount, connectionTimeoutMaxCount,
                 fcu_frame_rate, fcu_frame_count, fcu_address, fcu_port_out,
                 controls, lastControllerUpdateTime, sockQueue,
                 in_addr, log, recvOk, applied, sent, acceptedSrc, seq,
                 missedFrames, link, lastPwm, loadVars, frameVars, sonarSubs,
                 mutex, updPc, sockData, joints, actuated>>

\* OnUpdate, std::lock_guard<std::mutex> lock(mutex)
OnUpdateEnter ==
  /\ updateConnection
  /\ mutex = "none"
  /\ mutex' = "OnUpdate"
  /\ UNCHANGED <<arduPilotOnline, connectionTimeoutCount, connectionTimeoutMaxCount,
                 fcu_frame_rate, fcu_frame_count, fcu_address, fcu_port_out,
                 controls, lastControllerUpdateTime, sockQueue,
                 in_addr, log, recvOk, applied, sent, acceptedSrc, seq,
                 missedFrames, link, lastPwm, loadVars, frameVars, sonarVars,
                 updPc, sockData, joints, actuated>>

\* OnUpdate from there to its return, where the lock is released
OnUpdateExit ==
  /\ mutex = "OnUpdate"
  /\ OnUpdateLocked({SERVO_PACKET_SIZE}, SonarPackets)
  /\ mutex' = "none"
  /\ UNCHANGED updPc

InitSonar == InitWith(ControlConfigs, 0..MaxSonars)

ArriveSonar == ArriveFrom({ <<"10.0.0.1", 5760>> })

NextSonar ==
  \/ ArriveSonar
  \/ OnUpdateEnter
  \/ OnUpdateExit
  \/ OnSonarStampedEnter
  \/ OnSonarStampedWrite

SpecSonar == InitSonar /\ [][NextSonar]_vars

----------------------------------------------------------------------------
(* OnUpdate called from two threads of the host.  Each call is four steps:
   the call, the lock_guard taking the mutex, the body of the function, and
   the return that destroys the lock_guard *)

\* faulty variant: the lock is granted whoever holds it
LockFree_Always(m) == TRUE

\* std::mutex::lock returns once no thread owns the mutex
LockFree(m) == m = "none"

\* whole frames with the right magic
ThreadPackets ==
  [magic : {MAGIC}, frame_rate : FrameRates,
   frame_count : { U32(0, 0), U32(0, 1) },
   pwm : { [c \in 0..(MAX_SERVO_CHANNELS - 1) |-> 1500] }]

\* thread t enters OnUpdate
OnUpdateCall(t) ==
  /\ updateConnection
  /\ updPc[t] = "out"
  /\ updPc' = [updPc EXCEPT ![t] = "lock"]
  /\ UNCHANGED <<bridgeVars, mutex>>

\* std::lock_guard<std::mutex> lock(mutex) in thread t
OnUpdateLock(t) ==
  /\ updPc[t] = "lock"
  /\ LockFree(mutex)
  /\ mutex' = "OnUpdate"
  /\ updPc' = [updPc EXCEPT ![t] = "tick"]
  /\ UNCHANGED bridgeVars

\* the body of OnUpdate in thread t
OnUpdateBody(t) ==
  /\ updPc[t] = "tick"
  /\ OnUpdateLocked({SERVO_PACKET_SIZE}, ThreadPackets)
  /\ updPc' = [updPc EXCEPT ![t] = "unlock"]
  /\ UNCHANGED mutex

\* thread t returns from OnUpdate: the lock_guard releases the mutex
OnUpdateReturn(t) ==
  /\ updPc[t] = "unlock"
  /\ mutex' = "none"
  /\ updPc' = [updPc EXCEPT ![t] = "out"]
  /\ UNCHANGED bridgeVars

InitThreads == InitWith(ControlConfigs, {0})

ArriveThreads == ArriveFrom({ <<"10.0.0.1", 5760>> })

NextThreads ==
  \/ ArriveThreads
  \/ \E t \in UpdateThreads :
       \/ OnUpdateCall(t)
       \/ OnUpdateLock(t)
       \/ OnUpdateBody(t)
       \/ OnUpdateReturn(t)

SpecThreads == InitThreads /\ [][NextThreads]_vars

----------------------------------------------------------------------------
(* The datagrams followed from their arrival: several wait at one OnUpdate, and
   pkt is what the first recv and the drain loop leave in it *)

\* faulty variant: the drain loop reads the datagrams and keeps the first
DrainLoop_KeepsFirst(pkt, waiting) == pkt

\* ReceiveServoPacket, while (true): each further datagram read replaces pkt
RECURSIVE DrainLoop(_, _)
DrainLoop(pkt, waiting) ==
  IF waiting = <<>> THEN pkt
  ELSE DrainLoop(Head(waiting), Tail(waiting))

\* pkt after the recv with the bounded wait, which reads the first datagram,
\* and the drain loop over the datagrams behind it
ReceivedPacket(data) == DrainLoop(Head(data), Tail(data))

\* whole frames, some with a wrong magic
DrainPackets ==
  [magic : {MAGIC, 0}, frame_rate : FrameRates,
   frame_count : { U32(0, 0), U32(0, 1) }, pwm : PwmArrays]

\* a datagram with its contents reaches the bound socket
ArriveData(srcs, pkts) ==
  /\ sockBound
  /\ Len(sockQueue) < MaxQueue
  /\ \E src \in srcs, pkt \in pkts :
       /\ sockQueue' = Append(sockQueue, src)
       /\ sockData' = Append(sockData, pkt)
  /\ UNCHANGED <<arduPilotOnline, connectionTimeoutCount, connectionTimeoutMaxCount,
                 fcu_frame_rate, fcu_frame_count, fcu_address, fcu_port_out,
                 controls, lastControllerUpdateTime,
                 in_addr, log, recvOk, applied, sent, acceptedSrc, seq,
                 missedFrames, link, lastPwm, loadVars, frameVars, sonarVars, mutex,
                 updPc, joints, actuated>>

ArriveDrain == ArriveData({ <<"10.0.0.1", 5760>> }, DrainPackets)

\* OnUpdate when the contents of the waiting datagrams are known
OnUpdateDrain ==
  /\ updateConnection
  /\ mutex = "none"
  /\ \E curTime \in Times :
       IF PositiveStep(curTime - lastControllerUpdateTime) /\ sockQueue # <<>>
         THEN Update(curTime, SERVO_PACKET_SIZE, ReceivedPacket(sockData))
         ELSE Update(curTime, -1, NoPacket)
  /\ UNCHANGED <<mutex, updPc>>

InitDrain == InitWith(ControlConfigs, {0})

NextDrain == ArriveDrain \/ OnUpdateDrain

SpecDrain == InitDrain /\ [][NextDrain]_vars

----------------------------------------------------------------------------
(* The actuation of one control of every kind, force-driven or direct, on a
   joint that moves between the calls of OnUpdate *)

\* velocities and positions the physics engine gives a joint, in thousandths
JointStates == [vel : {0, -200}, pos : {0, 300}]

\* one control of each type, force-driven or not, with and without slowdown
ActuationConfigs ==
  { << [VelocityControl EXCEPT !.type = ty, !.useForce = f,
                               !.rotorVelocitySlowdownSim = sl] >> :
      ty \in {"VELOCITY", "POSITION", "EFFORT"}, f \in BOOLEAN, sl \in {1, 10} }

\* whole frames with the right magic: PWM 1500 and 2000 on channel 0
ActuationPackets ==
  [magic : {MAGIC}, frame_rate : FrameRates,
   frame_count : { U32(0, 0), U32(0, 1) }, pwm : PwmArrays]

\* the physics engine steps the world: the joints move
Physics ==
  /\ loaded
  /\ joints' \in [DOMAIN joints -> JointStates]
  /\ joints' # joints
  /\ UNCHANGED <<arduPilotOnline, connectionTimeoutCount, connectionTimeoutMaxCount,
                 fcu_frame_rate, fcu_frame_count, fcu_address, fcu_port_out,
                 controls, lastControllerUpdateTime, sockQueue,
                 in_addr, log, recvOk, applied, sent, acceptedSrc, seq,
                 missedFrames, link, lastPwm, loadVars, frameVars, sonarVars, mutex,
                 updPc, sockData, actuated>>

InitActuation == InitWith(ActuationConfigs, {0})

ArriveActuation == ArriveFrom({ <<"10.0.0.1", 5760>> })

OnUpdateActuation == OnUpdateWith({SERVO_PACKET_SIZE}, ActuationPackets)

NextActuation == Physics \/ ArriveActuation \/ OnUpdateActuation

SpecActuation == InitActuation /\ [][NextActuation]_vars

----------------------------------------------------------------------------
(* The bridge fed frames that differ in their frame rate *)

\* frame rates the controller announces
AnnouncedRates == { 50, 400 }

\* whole frames, some with a wrong magic
RatePackets ==
  [magic : {MAGIC, 0}, frame_rate : AnnouncedRates,
   frame_count : { U32(0, 0), U32(0, 1) },
   pwm : { [c \in 0..(MAX_SERVO_CHANNELS - 1) |-> 1500] }]

InitRate == InitWith(ControlConfigs, {0})

ArriveRate == ArriveFrom({ <<"10.0.0.1", 5760>> })

OnUpdateRate == OnUpdateWith({SERVO_PACKET_SIZE}, RatePackets)

NextRate == ArriveRate \/ OnUpdateRate

SpecRate == InitRate /\ [][NextRate]_vars

----------------------------------------------------------------------------
(* The bridge fed whole valid frames over the PWM range, for the PWM-to-command
   mapping under several channel configurations *)

PwmValues == { 500, 1000, 1250, 1500, 2000, 2500 }

\* frames that carry the same PWM value on every channel
PwmPackets ==
  [magic : {MAGIC}, frame_rate : FrameRates,
   frame_count : { U32(0, 0), U32(0, 1) },
   pwm : { [c \in 0..(MAX_SERVO_CHANNELS - 1) |-> v] : v \in PwmValues }]

\* a first channel with its multiplier, offset and servo_max configured, and
\* a second one with the defaults on the last PWM slot
PwmConfigs ==
  { << [VelocityControl EXCEPT !.multiplier = m, !.offset = o, !.servo_max = hi],
       [VelocityControl EXCEPT !.channel = MAX_SERVO_CHANNELS - 1] >> :
      m \in {1, -2}, o \in {0, 1}, hi \in {2000, 1500} }

InitPwm == InitWith(PwmConfigs, {0})

ArrivePwm == ArriveFrom({ <<"10.0.0.1", 5760>> })

OnUpdatePwm == OnUpdateWith({SERVO_PACKET_SIZE}, PwmPackets)

NextPwm == ArrivePwm \/ OnUpdatePwm

SpecPwm == InitPwm /\ [][NextPwm]_vars

----------------------------------------------------------------------------
(* The bridge with range sensors whose messages carry different ranges *)

\* numbers of <sensor> elements, below and above the six rng_ keys
RangeSensorCounts == { 2, 7 }

\* ranges carried by the sonar messages
ChangingRanges == { 5, 7 }

OnSonarStampedRange == OnSonarStampedFrom(SonarPublishers, ChangingRanges)

InitRange == InitWith(ControlConfigs, RangeSensorCounts)

NextRange ==
  \/ ArriveSonar
  \/ OnSonarStampedRange
  \/ OnSonarStampedWrite
  \/ OnUpdateEnter
  \/ OnUpdateExit

SpecRange == InitRange /\ [][NextRange]_vars

----------------------------------------------------------------------------
(* The bridge with range sensors declared under any <index>, until its
   destructor has run *)

\* the <index> of the <sensor> elements of the configurations, in order
DeclaredIndices ==
  { <<1>>, <<1, 2>>, <<2, 1>>, <<1, 1>>, <<1, 3>>, <<0>>, <<2>> }

\* LoadSonarSensors: each callback is bound to sensorId.index - 1
BoundTo(indices) == [i \in DOMAIN indices |-> indices[i] - 1]

\* ~ArduPilotPlugin: the subscriptions are reset and cleared and the update
\* connection is reset; no lock is taken and no callback is waited for
Destructor ==
  /\ loaded
  /\ sonarSubs # <<>> \/ updateConnection
  /\ sonarSubs' = <<>>
  /\ updateConnection' = FALSE
  /\ UNCHANGED <<arduPilotOnline, connectionTimeoutCount, connectionTimeoutMaxCount,
                 fcu_frame_rate, fcu_frame_count, fcu_address, fcu_port_out,
                 controls, lastControllerUpdateTime, sockQueue,
                 in_addr, log, recvOk, applied, sent, acceptedSrc, seq,
                 missedFrames, link, lastPwm, loaded, sockBound, sdfControls,
                 frameVars, sonarRanges, sonarCb, mutex,
                 updPc, sockData, joints, actuated>>

InitSensors ==
  InitIn(ControlConfigs, { BoundTo(indices) : indices \in DeclaredIndices },
         { WorldRest }, { ZeroPose }, { DefaultGazeboXYZToNED })

NextSensors ==
  \/ ArriveSonar
  \/ OnSonarStampedEnter
  \/ OnSonarStampedWrite
  \/ OnUpdateEnter
  \/ OnUpdateExit
  \/ Destructor

SpecSensors == InitSensors /\ [][NextSensors]_vars

----------------------------------------------------------------------------
(* The bridge of a model that moves in the world, with the frame offsets the
   configuration can give: what SendState reports as position and velocity *)

\* positions and velocities of the model in the world frame
WorldPoints == { Vec(1, 2, 3), Vec(-2, 0, 5) }

\* orientations of the model in the world frame
WorldRotations == { QIdentity, QYawHalfPi }

\* model->WorldPose() and WorldLinearVel(): each position with each
\* orientation, and the other point as velocity
Worlds ==
  { w \in [pose : { Pose3d(p, q) : p \in WorldPoints, q \in WorldRotations },
           vel : WorldPoints] : w.vel # w.pose.p }

\* <modelXYZToAirplaneXForwardZDown> of the configurations, absent or given
ModelOffsets == { ZeroPose, Pose3d(Vec(1, 0, 0), QYawHalfPi) }

\* <gazeboXYZToNED> of the configurations, absent or given
NedOffsets ==
  { DefaultGazeboXYZToNED, ZeroPose, Pose3d(Vec(0, 0, 1), QYawHalfPi) }

\* whole frames with the right magic
NedPackets ==
  [magic : {MAGIC}, frame_rate : FrameRates,
   frame_count : { U32(0, 0), U32(0, 1) },
   pwm : { [c \in 0..(MAX_SERVO_CHANNELS - 1) |-> 1500] }]

\* the physics engine moves the model between two calls of OnUpdate
Move ==
  /\ loaded
  /\ world' \in Worlds \ { world }
  /\ UNCHANGED <<arduPilotOnline, connectionTimeoutCount, connectionTimeoutMaxCount,
                 fcu_frame_rate, fcu_frame_count, fcu_address, fcu_port_out,
                 controls, lastControllerUpdateTime, sockQueue,
                 in_addr, log, recvOk, applied, sent, acceptedSrc, seq,
                 missedFrames, link, lastPwm, loadVars, sonarVars, mutex,
                 updPc, sockData, joints, actuated,
                 modelXYZToAirplaneXForwardZDown, gazeboXYZToNED>>

InitNed ==
  InitIn(ControlConfigs, { BoundInOrder(0) }, Worlds, ModelOffsets, NedOffsets)

ArriveNed == ArriveFrom({ <<"10.0.0.1", 5760>> })

OnUpdateNed == OnUpdateWith({SERVO_PACKET_SIZE}, NedPackets)

NextNed == ArriveNed \/ OnUpdateNed \/ Move

SpecNed == InitNed /\ [][NextNed]_vars

----------------------------------------------------------------------------
(* The bridge while the world keeps raising its update event: the simulation
   time of the event grows from one call to the next.  The clock of the model
   is bounded, so a call that sets it back stands for the part of an endless
   run that the bound cuts off; it receives nothing and changes no session
   state. *)

\* whole frames, some with a wrong magic
LivePackets ==
  [magic : {MAGIC, 0}, frame_rate : FrameRates,
   frame_count : { U32(0, 0), U32(0, 1) },
   pwm : { [c \in 0..(MAX_SERVO_CHANNELS - 1) |-> 1600] }]

InitLive == InitWith(ControlConfigs, {0})

ArriveLive == ArriveFrom({ <<"10.0.0.1", 5760>> })

OnUpdateLive == OnUpdateWith({SERVO_PACKET_SIZE}, LivePackets)

\* an OnUpdate whose time step is positive
PositiveUpdate ==
  OnUpdateLive /\ lastControllerUpdateTime' > lastControllerUpdateTime

\* an OnUpdate that sets the bounded clock back
ClockWrap ==
  OnUpdateLive /\ lastControllerUpdateTime' < lastControllerUpdateTime

NextLive == ArriveLive \/ OnUpdateLive

\* the update event keeps being raised with a growing simulation time
SpecLive ==
  /\ InitLive
  /\ [][NextLive]_vars
  /\ WF_vars(ClockWrap)
  /\ SF_vars(PositiveUpdate)

----------------------------------------------------------------------------
(* Steps of the bridge, as seen from a pair of states *)

\* the step is an OnUpdate with a positive time step
Tick == lastControllerUpdateTime' > lastControllerUpdateTime

\* the step is a tick whose receive read nothing (recvSize == -1)
TimeoutTick == Tick /\ sockQueue = <<>>

\* the step is a tick that read recvSize bytes and left pkt in the local
\* servo_packet after the drain loop
RecvTick(recvSize, pkt) ==
  /\ Tick
  /\ sockQueue # <<>>
  /\ Update(lastControllerUpdateTime', recvSize, pkt)

\* source of the datagram that a tick decodes: the last one waiting
DecodedSrc == sockQueue[Len(sockQueue)]

\* the remote endpoint SendState uses
RemoteEndpoint == <<fcu_address, fcu_port_out>>

\* pkt passes the magic validation
ValidMagic(pkt) == pkt.magic = MAGIC

\* pkt carries the last accepted frame count
IsDuplicate(pkt) == pkt.frame_count = fcu_frame_count

----------------------------------------------------------------------------
\* C1: for every threshold T >= 0, while Online each tick whose receive
\* times out increments the consecutive-timeout counter, and on the tick
\* where the counter exceeds T the bridge becomes Offline, the counter is
\* reset to 0 and every channel's pending command is 0 at the end of the tick.
C1_TimeoutGoesOffline ==
  [][ (TimeoutTick /\ arduPilotOnline) =>
        IF connectionTimeoutCount + 1 > connectionTimeoutMaxCount
          THEN /\ ~arduPilotOnline'
               /\ connectionTimeoutCount' = 0
               /\ AllCmdZero(controls')
          ELSE /\ arduPilotOnline'
               /\ connectionTimeoutCount' = connectionTimeoutCount + 1
               /\ controls' = controls ]_vars

\* the connection was declared broken under a threshold that first let the
\* counter grow
C1_Witness ==
  /\ "Broken" \in log
  /\ ~arduPilotOnline
  /\ connectionTimeoutCount = 0
  /\ connectionTimeoutMaxCount >= 1
  /\ AllCmdZero(controls)

\* C2: at every tick boundary, if the online flag is true then the
\* consecutive-timeout counter is <= the configured threshold.
C2_OnlineWithinThreshold ==
  arduPilotOnline => connectionTimeoutCount <= connectionTimeoutMaxCount

\* online with the counter at the threshold, after timeouts
C2_Witness ==
  /\ arduPilotOnline
  /\ connectionTimeoutMaxCount >= 1
  /\ connectionTimeoutCount = connectionTimeoutMaxCount

\* C3: when the bridge is Offline and a tick receives a frame that passes
\* magic validation and is accepted by the frame-counter policy, the bridge is
\* Online at the end of that tick, the timeout counter is 0, and the remote
\* endpoint holds the source of that datagram.
C3_ConnectRecordsSource ==
  [][ \A recvSize \in RecvSizes, pkt \in Packets :
        ( /\ ~arduPilotOnline
          /\ ValidMagic(pkt) /\ ~IsDuplicate(pkt)
          /\ RecvTick(recvSize, pkt) ) =>
          /\ arduPilotOnline'
          /\ connectionTimeoutCount' = 0
          /\ RemoteEndpoint' = DecodedSrc ]_vars

\* C4: every outbound telemetry datagram is addressed to the source address
\* and port of the most recently accepted inbound datagram; rejected
\* datagrams and receive timeouts never change the destination.
C4_SendToAcceptedSource ==
  \A i \in DOMAIN sent : <<sent[i].addr, sent[i].port>> = acceptedSrc

\* C5: a received frame with correct magic whose frame count equals the last
\* accepted frame count is rejected: the receive step reports no packet, no
\* pending command is changed and the last accepted frame count is unchanged.
C5_DuplicateRejected ==
  sockQueue # <<>> =>
    \A pkt \in Packets :
      (ValidMagic(pkt) /\ IsDuplicate(pkt)) =>
        LET r == ReceiveServoPacket(SERVO_PACKET_SIZE, pkt) IN
        /\ ~r.ret
        /\ r.ctrls = controls
        /\ r.fcount = fcu_frame_count

\* a duplicate was rejected while commands were pending
C5_Witness ==
  /\ "Duplicate" \in log
  /\ ~recvOk
  /\ arduPilotOnline
  /\ ~AllCmdZero(controls)

\* C6 as stated: every received frame that passes magic validation resets the
\* consecutive-timeout counter to 0, a duplicate included.
C6_EveryValidFrameResets ==
  [][ \/ connectionTimeoutCount' = 0
      \/ \A recvSize \in RecvSizes, pkt \in Packets :
           ~(ValidMagic(pkt) /\ RecvTick(recvSize, pkt)) ]_vars

\* C6 amended: every received frame that passes magic validation and is not a
\* duplicate of the last accepted frame count resets the consecutive-timeout
\* counter to 0; a duplicate returns before the reset and leaves the counter
\* as it was.
C6_AcceptedFrameResets ==
  sockQueue # <<>> =>
    \A pkt \in Packets :
      ValidMagic(pkt) =>
        LET r == ReceiveServoPacket(SERVO_PACKET_SIZE, pkt) IN
        r.count = IF IsDuplicate(pkt) THEN connectionTimeoutCount ELSE 0

\* a frame was accepted on a bridge that was already online and can count
\* timeouts
C6_Witness ==
  /\ recvOk
  /\ arduPilotOnline
  /\ "Connected" \notin log
  /\ connectionTimeoutCount = 0
  /\ connectionTimeoutMaxCount >= 1

\* C7: receiving a duplicate frame leaves the consecutive-timeout counter
\* exactly as it was before the tick; the counter only increases on ticks
\* whose receive truly timed out.
C7_DuplicateKeepsCounter ==
  /\ [](sockQueue # <<>> =>
          \A pkt \in Packets :
            (ValidMagic(pkt) /\ IsDuplicate(pkt)) =>
              ReceiveServoPacket(SERVO_PACKET_SIZE, pkt).count
                = connectionTimeoutCount)
  /\ [][ connectionTimeoutCount' > connectionTimeoutCount
           => (TimeoutTick /\ arduPilotOnline) ]_vars

\* a duplicate was received while missed receives were counted
C7_Witness ==
  /\ "Duplicate" \in log
  /\ arduPilotOnline
  /\ connectionTimeoutCount > 0

\* C8: a received frame whose magic is not 18458 is rejected whatever its
\* frame_rate, frame_count and pwm: the online flag, the last accepted frame
\* count and frame rate, the timeout counter and every pending command keep
\* their values.
C8_BadMagicRejected ==
  sockQueue # <<>> =>
    \A pkt \in Packets :
      ~ValidMagic(pkt) =>
        LET r == ReceiveServoPacket(SERVO_PACKET_SIZE, pkt) IN
        /\ ~r.ret
        /\ r.online = arduPilotOnline
        /\ r.fcount = fcu_frame_count
        /\ r.rate = fcu_frame_rate
        /\ r.count = connectionTimeoutCount
        /\ r.ctrls = controls

\* a bad-magic frame was received while online with missed receives counted
\* and commands pending
C8_Witness ==
  /\ "BadMagic" \in log
  /\ arduPilotOnline
  /\ connectionTimeoutCount > 0
  /\ ~AllCmdZero(controls)

\* C9: a received datagram whose byte length differs from the fixed frame
\* size is always rejected as malformed and never changes session state or
\* any pending command, even when its leading bytes carry the correct magic.
C9_ShortDatagramRejected ==
  [][ \A recvSize \in RecvSizes, pkt \in Packets :
        (recvSize # SERVO_PACKET_SIZE /\ RecvTick(recvSize, pkt)) =>
          /\ ~recvOk'
          /\ UNCHANGED <<arduPilotOnline, connectionTimeoutCount,
                         fcu_frame_count, fcu_frame_rate, controls>> ]_vars

\* C10: for every sequence of valid-magic frames whose counts increase by
\* exactly 1, delivered one per tick to a freshly constructed bridge, every
\* frame is accepted: the number of accepted frames equals the length of the
\* sequence, for every starting count.
C10_GapFreeSequenceAccepted ==
  seq.on => seq.accepted = seq.delivered

----------------------------------------------------------------------------
\* the command channel i gets from the frame pkt
FrameCmd(ctrls, i, pkt) == PwmToCmd(ctrls[i], pkt.pwm[ctrls[i].channel])

\* C11: a valid-magic frame whose frame count is lower than the last accepted
\* count is accepted as a counterpart restart: the last accepted count becomes
\* the frame's count, the timeout counter is reset, the pending commands are
\* recomputed from the frame's PWM values, and nothing else is re-initialised
\* (an online bridge stays online, the PID state is not reset).
C11_LowerCountRestart ==
  sockQueue # <<>> =>
    \A pkt \in Packets :
      (ValidMagic(pkt) /\ Lt32(pkt.frame_count, fcu_frame_count)) =>
        LET r == ReceiveServoPacket(SERVO_PACKET_SIZE, pkt) IN
        /\ r.ret
        /\ "Reset" \in r.log
        /\ r.fcount = pkt.frame_count
        /\ r.count = 0
        /\ \A i \in DOMAIN controls : r.ctrls[i].cmd = FrameCmd(controls, i, pkt)
        /\ Pids(r.ctrls) = Pids(controls)
        /\ arduPilotOnline => r.online

\* a lower frame count was accepted by a bridge that was online, whose PID
\* controllers had run
C11_Witness ==
  /\ "Reset" \in log
  /\ "Connected" \notin log
  /\ recvOk
  /\ arduPilotOnline
  /\ connectionTimeoutCount = 0
  /\ ~AllCmdZero(controls)
  /\ \A i \in DOMAIN controls : controls[i].pid = "run"

\* C12: when online, a valid-magic frame whose count is greater than
\* lastAccepted + 1 is accepted, and the diagnostic emitted for it reports the
\* number of missed frames, count - lastAccepted - 1.
C12_MissedFramesReported ==
  (arduPilotOnline /\ sockQueue # <<>>) =>
    \A pkt \in Packets :
      ( /\ ValidMagic(pkt)
        /\ Lt32(fcu_frame_count, pkt.frame_count)
        /\ pkt.frame_count # Inc32(fcu_frame_count) ) =>
        LET r == ReceiveServoPacket(SERVO_PACKET_SIZE, pkt) IN
        /\ r.ret
        /\ "Missed" \in r.log
        /\ r.missed = Sub32(Sub32(pkt.frame_count, fcu_frame_count), U32(0, 1))

\* C13 as stated: after the bridge has gone offline through the timeout
\* threshold, the next tick that receives a frame with the correct magic,
\* whatever its frame count, brings the bridge back online and recomputes the
\* pending commands from that frame.
C13_AnyValidFrameReconnects ==
  (link = "lost" /\ sockQueue # <<>>) =>
    \A pkt \in Packets :
      ValidMagic(pkt) =>
        LET r == ReceiveServoPacket(SERVO_PACKET_SIZE, pkt) IN
        /\ r.online
        /\ \A i \in DOMAIN controls : r.ctrls[i].cmd = FrameCmd(controls, i, pkt)

\* C13 amended: after the bridge has gone offline through the timeout
\* threshold, the next tick that receives a frame with the correct magic and
\* a frame count other than the last accepted one brings the bridge back
\* online and recomputes the pending commands from that frame; a frame that
\* repeats the last accepted count is rejected as a duplicate and the bridge
\* stays offline with every pending command 0.
C13_NewFrameReconnects ==
  (link = "lost" /\ sockQueue # <<>>) =>
    /\ ~arduPilotOnline
    /\ \A pkt \in Packets :
         ValidMagic(pkt) =>
           LET r == ReceiveServoPacket(SERVO_PACKET_SIZE, pkt) IN
           IF IsDuplicate(pkt)
             THEN ~r.online /\ ~r.ret /\ AllCmdZero(r.ctrls)
             ELSE /\ r.online
                  /\ r.ret
                  /\ \A i \in DOMAIN controls :
                       r.ctrls[i].cmd = FrameCmd(controls, i, pkt)

\* the bridge is back online, with commands pending, after it had lost the
\* connection
C13_Witness ==
  /\ link = "back"
  /\ "Connected" \in log
  /\ arduPilotOnline
  /\ ~AllCmdZero(controls)

\* pwm normalised from [lo, hi] to [0, 1] in thousandths, saturating
Normalized(pwm, lo, hi) ==
  IF pwm <= lo THEN 0
  ELSE IF pwm >= hi THEN CmdScale
  ELSE ((pwm - lo) * CmdScale) \div (hi - lo)

\* C14: on every accepted frame, each channel with index c in 0..15 gets the
\* pending command multiplier * (clamp((pwm[c] - servo_min) / (servo_max -
\* servo_min), 0, 1) + offset), saturating and never extrapolating: with
\* servo_min 1000, servo_max 2000, multiplier 1, offset 0, PWM 1500 gives
\* 0.5, every PWM <= 1000 gives 0 and every PWM >= 2000 gives 1.
C14_PwmToCommand ==
  recvOk =>
    \A i \in DOMAIN controls :
      LET c == controls[i]
          pwm == lastPwm[c.channel]
      IN  /\ c.channel \in 0..(MAX_SERVO_CHANNELS - 1)
          /\ c.cmd = c.multiplier
                       * (Normalized(pwm, c.servo_min, c.servo_max)
                          + c.offset * CmdScale)
          /\ (c.multiplier = 1 /\ c.offset = 0
               /\ c.servo_min = 1000 /\ c.servo_max = 2000) =>
                /\ pwm = 1500 => c.cmd * 2 = CmdScale
                /\ pwm <= 1000 => c.cmd = 0
                /\ pwm >= 2000 => c.cmd = CmdScale

\* a frame with PWM 2500 on every channel was accepted: the default channel
\* saturates at 1, the first channel at its configured multiple
C14_Witness ==
  /\ recvOk
  /\ lastPwm[0] = 2500
  /\ controls[1].multiplier = -2
  /\ controls[1].offset = 1
  /\ controls[1].cmd = -4 * CmdScale
  /\ controls[2].cmd = CmdScale

\* the smaller of a and b
Min(a, b) == IF a < b THEN a ELSE b

\* C15 as stated: for every number N of configured range sensors with
\* 0 <= N <= 10, the telemetry object contains exactly the keys rng_1 ..
\* rng_N, as a loop from 1 to N would write them; for N = 3 it contains
\* rng_1, rng_2, rng_3 and no rng_4.
C15_RangeKeysUpToN ==
  \A i \in DOMAIN sent :
    LET n == Len(sonarRanges) IN
    n <= 10 => RngKeys(sent[i]) = 1..n

\* C15 amended: for every number N of configured range sensors with
\* 0 <= N <= 10, the telemetry object contains exactly the keys rng_1 ..
\* rng_min(N, 6): the cases 10 to 7 of the switch fall through to case 6, so
\* it is a loop from 1 to N only for N <= 6 and never writes rng_7 .. rng_10;
\* for N = 3 it contains rng_1, rng_2, rng_3 and no rng_4.  Each key carries
\* the range slot of its index.
C15_RangeKeysUpToSix ==
  \A i \in DOMAIN sent :
    LET n == Len(sonarRanges) IN
    n <= 10 =>
      /\ RngKeys(sent[i]) = 1..Min(n, 6)
      /\ n = 3 => RngKeys(sent[i]) = {1, 2, 3}
      /\ \A f \in sent[i].rng : f[2] \in {-1} \cup RangeValues

\* telemetry was sent by a bridge with seven range sensors: rng_1 .. rng_6
C15_Witness ==
  /\ Len(sonarRanges) = 7
  /\ Len(sent) = 1
  /\ RngKeys(sent[1]) = 1..6

\* C16: a sensor callback's write to a range-reading slot never interleaves
\* with a tick's processing: no state is reachable in which the callback is
\* writing a range slot while the tick is between acquiring and releasing
\* its lock.
C16_CallbackExcludedFromTick ==
  ~(sonarCb.pc = "write" /\ mutex = "OnUpdate")

BindFailed == loaded /\ ~sockBound

\* C18: if binding the socket fails at startup, the per-tick update is never
\* registered: no tick ever runs, so no receive, actuation or send happens
\* for the life of that bridge instance.
C18_BindFailureNeverTicks ==
  /\ [](BindFailed =>
          /\ ~updateConnection
          /\ ~arduPilotOnline
          /\ ~recvOk
          /\ applied = <<>>
          /\ sent = <<>>)
  /\ [][ ~BindFailed ]_vars

\* a Load that configured both channels and failed to bind
C18_Witness ==
  /\ BindFailed
  /\ ~updateConnection
  /\ Len(controls) = 2

\* the controls of the <control> elements whose joint was found, in order
RECURSIVE ResolvedControls(_)
ResolvedControls(sdf) ==
  IF sdf = <<>> THEN <<>>
  ELSE (IF Head(sdf).jointFound THEN << Head(sdf).control >> ELSE <<>>)
         \o ResolvedControls(Tail(sdf))

\* C19: for every list of declared control channels, a channel whose joint
\* cannot be resolved is the only one disabled: every other declared channel,
\* before or after it in declaration order, is still configured and actuated,
\* and the bridge still starts its tick loop.
C19_OnlyUnresolvedDisabled ==
  loaded =>
    /\ \A i \in DOMAIN controls :
         [controls[i] EXCEPT !.cmd = 0, !.pid = "init"]
           = ResolvedControls(sdfControls)[i]
    /\ Len(controls) = Len(ResolvedControls(sdfControls))
    /\ arduPilotOnline => Len(applied) = Len(ResolvedControls(sdfControls))
    /\ sockBound => updateConnection

\* C20: a per-frame rejection (bad magic or duplicate) received while online
\* does not abort the tick: the bridge stays online, actuation is applied in
\* that tick with every channel's previous pending command, and telemetry is
\* still sent.
C20_RejectionKeepsTick ==
  [][ ( /\ Tick
        /\ arduPilotOnline
        /\ ("BadMagic" \in log' \/ "Duplicate" \in log') ) =>
        /\ ~recvOk'
        /\ arduPilotOnline'
        /\ Cmds(controls') = Cmds(controls)
        /\ applied' = Cmds(controls)
        /\ Len(sent') = 1 ]_vars

\* a bad-magic frame was rejected in a tick that still applied the pending
\* commands and sent telemetry
C20_Witness ==
  /\ "BadMagic" \in log
  /\ ~recvOk
  /\ arduPilotOnline
  /\ ~AllCmdZero(controls)
  /\ applied = Cmds(controls)
  /\ Len(sent) = 1

InTick(t) == updPc[t] \in {"tick", "unlock"}

\* C22: tick processing is mutually exclusive: if the host invokes the
\* per-tick update from two threads, the second invocation does not read or
\* write session or actuator state until the first has finished its whole
\* tick (receive, command mapping, actuation, send).
C22_TicksExclusive ==
  /\ \A t1, t2 \in UpdateThreads : (InTick(t1) /\ InTick(t2)) => t1 = t2
  /\ (\E t \in UpdateThreads : InTick(t)) <=> mutex = "OnUpdate"

\* one thread waits at the lock while the other has run a whole tick, from
\* the receive to the send, and has not returned yet
C22_Witness ==
  /\ updPc[1] = "lock"
  /\ updPc[2] = "unlock"
  /\ recvOk
  /\ arduPilotOnline
  /\ Len(actuated) = Len(controls)
  /\ Len(sent) = 1

\* C23: in a tick where several datagrams are queued, after one bounded wait
\* the socket is drained without blocking and only the most recently received
\* datagram is decoded and fed to the frame-counter policy; every older
\* queued datagram is discarded without affecting the last accepted count,
\* the timeout counter, the online flag or any pending command, and the queue
\* is empty after the tick.
C23_OnlyLatestDecoded ==
  /\ [](Len(sockData) > 1 =>
          LET r == ReceiveServoPacket(SERVO_PACKET_SIZE, ReceivedPacket(sockData))
              latest == ReceiveServoPacket(SERVO_PACKET_SIZE,
                                           sockData[Len(sockData)])
          IN  /\ "Drained" \in r.log
              /\ r.ret = latest.ret
              /\ r.fcount = latest.fcount
              /\ r.count = latest.count
              /\ r.online = latest.online
              /\ Cmds(r.ctrls) = Cmds(latest.ctrls))
  /\ [][ Tick => (sockQueue' = <<>> /\ sockData' = <<>>) ]_vars

\* a tick drained the socket and accepted the frame it kept: the count and
\* the commands are those of the frame that arrived last
C23_Witness ==
  /\ "Drained" \in log
  /\ recvOk
  /\ sockQueue = <<>>
  /\ sockData = <<>>
  /\ fcu_frame_count = U32(0, 1)
  /\ ~AllCmdZero(controls)

PidDriven(c) == c.useForce /\ c.type \in {"VELOCITY", "POSITION"}

\* the joint setter a control calls with its command when it is not PID-driven
DirectSetter(c) ==
  IF c.type = "EFFORT" THEN "SetForce"
  ELSE IF c.type = "VELOCITY" THEN "SetVelocity"
  ELSE "SetPosition"

\* C25: in one actuation step a channel's PID is updated if and only if the
\* channel is force-driven and its kind is VELOCITY or POSITION (with error =
\* current joint velocity - cmd/slowdown, resp. current joint position -
\* cmd); for EFFORT in either mode and for direct VELOCITY/POSITION the PID
\* state is unchanged and cmd itself is applied as force, velocity or
\* position.
C25_PidOnlyWhenForceDriven ==
  /\ [](\A i \in DOMAIN controls :
          controls[i].pid = "run" => PidDriven(controls[i]))
  /\ [][ (Tick /\ arduPilotOnline') =>
            /\ DOMAIN actuated' = DOMAIN controls
            /\ \A i \in DOMAIN controls :
                 LET c == controls'[i]
                     j == joints[i]
                     a == actuated'[i]
                 IN  IF PidDriven(c)
                       THEN /\ c.pid = "run"
                            /\ a.set = "SetForce"
                            /\ a.arg = << >>
                            /\ a.pidError =
                                 IF c.type = "VELOCITY"
                                   THEN << j.vel - (c.cmd \div c.rotorVelocitySlowdownSim) >>
                                   ELSE << j.pos - c.cmd >>
                       ELSE /\ c.pid = controls[i].pid
                            /\ a.set = DirectSetter(c)
                            /\ a.arg = << c.cmd >>
                            /\ a.pidError = << >> ]_vars

\* a force-driven velocity control with slowdown 10 and command 0.5 on a
\* joint turning at -0.2: the PID was fed -0.2 - 0.05
C25_Witness ==
  /\ arduPilotOnline
  /\ controls[1].type = "VELOCITY"
  /\ controls[1].useForce
  /\ controls[1].rotorVelocitySlowdownSim = 10
  /\ controls[1].cmd = 500
  /\ controls[1].pid = "run"
  /\ Len(actuated) = 1
  /\ actuated[1].pidError = << -250 >>

\* C26: after configuration every channel's controller kind is one of
\* VELOCITY, POSITION, EFFORT (a missing or unrecognised kind is replaced by
\* VELOCITY), so the no-op branch for an unknown kind is never reached in any
\* actuation step.
C26_KindAlwaysKnown ==
  /\ Len(controls) <= Len(sdfControls)
  /\ \A i \in DOMAIN controls :
       LET written == sdfControls[i].control.type IN
       /\ controls[i].type \in {"VELOCITY", "POSITION", "EFFORT"}
       /\ controls[i].type =
            IF written \in {"VELOCITY", "POSITION", "EFFORT"}
              THEN written ELSE "VELOCITY"
  /\ \A i \in DOMAIN actuated : actuated[i].set # "none"

\* a control configured with an unknown kind is actuated as a velocity control
C26_Witness ==
  /\ Len(controls) = 1
  /\ sdfControls[1].control.type = "SPEED"
  /\ controls[1].type = "VELOCITY"
  /\ Len(actuated) = 1
  /\ actuated[1].set = "SetForce"
  /\ Len(actuated[1].pidError) = 1

\* C27: every configured channel has a non-zero slowdown factor for the whole
\* session: a configured value of 0 is coerced to 1 at configuration time and
\* no later operation changes it, so the velocity target cmd / slowdown never
\* divides by zero.
C27_SlowdownNeverZero ==
  /\ Len(controls) <= Len(sdfControls)
  /\ \A i \in DOMAIN controls :
       LET written == sdfControls[i].control.rotorVelocitySlowdownSim IN
       /\ controls[i].rotorVelocitySlowdownSim # 0
       /\ controls[i].rotorVelocitySlowdownSim =
            IF written = 0 THEN 1 ELSE written

\* a velocity control configured with slowdown 0 was actuated with its
\* command 0.5 as the velocity target
C27_Witness ==
  /\ Len(controls) = 1
  /\ sdfControls[1].control.rotorVelocitySlowdownSim = 0
  /\ controls[1].rotorVelocitySlowdownSim = 1
  /\ controls[1].type = "VELOCITY"
  /\ controls[1].cmd = 500
  /\ Len(actuated) = 1
  /\ actuated[1].pidError = << -500 >>

\* C28: every channel that exists after configuration has servo_min <
\* servo_max, for every pair of configured servo_min and servo_max values, so
\* the PWM normalisation never divides by zero and never inverts the range.
C28_ServoRangeOrdered ==
  \A i \in DOMAIN controls :
    /\ controls[i].servo_min < controls[i].servo_max
    /\ controls[i].cmd # NaN

\* C29: for every configured channel index (any integer, including negative
\* values and values >= 16), the PWM slot read when mapping an accepted frame
\* is within 0..15; a channel whose index is outside 0..15 is never mapped
\* and its pending command stays at its previous value.
C29_SlotWithinFrame ==
  /\ \A i \in DOMAIN controls :
       controls[i].channel \notin 0..(MAX_SERVO_CHANNELS - 1) =>
         controls[i].cmd = 0
  /\ (recvOk /\ "ChannelRange" \notin log) =>
       \A i \in DOMAIN controls :
         controls[i].channel \in 0..(MAX_SERVO_CHANNELS - 1)

\* C30: the stored last-accepted frame rate changes only when a frame is
\* accepted: a frame rejected as a duplicate (or for bad magic) leaves the
\* stored frame rate equal to the frame rate of the last accepted frame.
C30_RateOnlyFromAccepted ==
  sockQueue # <<>> =>
    \A pkt \in RatePackets :
      LET r == ReceiveServoPacket(SERVO_PACKET_SIZE, pkt) IN
      ~r.accepted => r.rate = fcu_frame_rate

\* a vector with its second and third coordinates negated
FlipYZ(v) == Vec(v[1], -v[2], -v[3])

\* C31: with the default world-to-NED offset (half a turn about x), the
\* velocity a tick reports for a world-frame velocity (x, y, z) is
\* (x, -y, -z), and with a zero model offset the position it reports for a
\* world position (x, y, z) is (x, -y, -z).
C31_DefaultNedFlipsYZ ==
  [][(Tick /\ arduPilotOnline' /\ gazeboXYZToNED = DefaultGazeboXYZToNED) =>
       /\ Len(sent') = 1
       /\ sent'[1].velocity = FlipYZ(world.vel)
       /\ modelXYZToAirplaneXForwardZDown = ZeroPose =>
            sent'[1].position = FlipYZ(world.pose.p)]_vars

\* a datagram went out, with the default offsets, for a model at (1, 2, 3)
\* that moves with (-2, 0, 5)
C31_Witness ==
  /\ gazeboXYZToNED = DefaultGazeboXYZToNED
  /\ modelXYZToAirplaneXForwardZDown = ZeroPose
  /\ world.pose.p = Vec(1, 2, 3)
  /\ world.vel = Vec(-2, 0, 5)
  /\ Len(sent) = 1
  /\ sent[1].position = Vec(1, -2, -3)
  /\ sent[1].velocity = Vec(-2, 0, -5)

\* C32: each range slot holds -1 from configuration until its first update
\* and afterwards the value of the most recent update for it; the rng_k a
\* tick reports is the content of slot k - 1 at that tick; an update to one
\* slot never changes another slot.
C32_SlotsHoldLatest ==
  /\ \A i \in DOMAIN sonarRanges : sonarRanges[i] = -1
  /\ [][/\ sonarRanges' # sonarRanges => sonarCb.pc = "write"
        /\ (sonarCb.pc = "write" /\ sonarCb'.pc = "idle") =>
             \A i \in DOMAIN sonarRanges :
               sonarRanges'[i] = IF i = sonarCb.index + 1
                                   THEN sonarCb.range
                                   ELSE sonarRanges[i]
        /\ (Tick /\ arduPilotOnline') =>
             /\ Len(sent') = 1
             /\ \A f \in sent'[1].rng : f[2] = sonarRanges[f[1]]]_vars

\* the last datagram reported 5 for the first slot, which has been updated to
\* 7 since, while the second slot still holds -1
C32_Witness ==
  /\ Len(sent) = 1
  /\ <<1, 5>> \in sent[1].rng
  /\ <<2, -1>> \in sent[1].rng
  /\ sonarRanges[1] = 7
  /\ sonarRanges[2] = -1

\* the destructor has released the subscriptions and the update connection
TornDown == loaded /\ sonarSubs = <<>> /\ ~updateConnection

\* C33: teardown is safe with callbacks in flight: once the destructor has
\* released the subscriptions and the tick connection, no sensor callback and
\* no tick reads or writes the state of the bridge, for every interleaving of
\* a pending callback with the destructor.
C33_QuietAfterTeardown ==
  [][TornDown =>
       UNCHANGED <<sonarRanges, arduPilotOnline, connectionTimeoutCount,
                   fcu_frame_count, controls, lastControllerUpdateTime,
                   sent>>]_vars

\* C34: for every set of declared range sensors (any 1-based indices, in any
\* order, with gaps or repeats), every sensor callback writes a slot i with
\* 0 <= i < number of slots.
C34_WriteWithinSlots ==
  sonarCb.pc = "write" => sonarCb.index \in 0..(Len(sonarRanges) - 1)

\* C35: at every tick boundary, if the bridge is Offline then every channel's
\* pending command is 0: commands are non-zero only between an accepted frame
\* and the next reset on a timeout.
C35_OfflineCommandsZero ==
  /\ ~arduPilotOnline => AllCmdZero(controls)
  /\ ~AllCmdZero(controls) => arduPilotOnline /\ lastPwm # NoPwm

\* the bridge is Offline at ticks after the one that declared the connection
\* broken, a datagram is waiting, and the commands are still 0
C35_Witness ==
  /\ ~arduPilotOnline
  /\ link = "lost"
  /\ "Broken" \notin log
  /\ sockQueue # <<>>
  /\ AllCmdZero(controls)

\* C36: a tick applies actuation and sends telemetry if and only if its time
\* step is positive and the bridge is Online after that tick's receive: the
\* first tick that accepts a frame already actuates and sends, the tick on
\* which the timeout threshold is exceeded does neither, and no datagram is
\* ever sent while Offline.
C36_ActuateAndSendIffOnline ==
  /\ [](~arduPilotOnline => sent = <<>> /\ applied = <<>> /\ actuated = <<>>)
  /\ []("Connected" \in log =>
          Len(sent) = 1 /\ applied = Cmds(controls) /\ actuated # <<>>)
  /\ []("Broken" \in log => sent = <<>> /\ applied = <<>> /\ actuated = <<>>)
  /\ [][ Tick =>
            IF arduPilotOnline'
              THEN /\ Len(sent') = 1
                   /\ applied' = Cmds(controls')
                   /\ DOMAIN actuated' = DOMAIN controls
              ELSE sent' = <<>> /\ applied' = <<>> /\ actuated' = <<>> ]_vars
  /\ [][ lastControllerUpdateTime' < lastControllerUpdateTime =>
            sent' = <<>> /\ applied' = <<>> /\ actuated' = <<>> ]_vars
  /\ [][ ~Tick =>
            \/ UNCHANGED <<sent, applied, actuated>>
            \/ sent' = <<>> /\ applied' = <<>> /\ actuated' = <<>> ]_vars

\* the tick that accepted the first frame applied its commands and sent a
\* datagram
C36_Witness ==
  /\ "Connected" \in log
  /\ arduPilotOnline
  /\ Len(sent) = 1
  /\ applied = Cmds(controls)
  /\ ~AllCmdZero(controls)
  /\ actuated # <<>>

\* C37: while Online, if from some tick on no frame is ever accepted (every
\* later tick is a receive timeout, a bad-magic frame or a duplicate, in any
\* mix), then the bridge eventually becomes Offline and its commands are
\* zeroed, assuming ticks keep occurring with a positive time step.
C37_NoAcceptGoesOffline ==
  <>[][~recvOk']_vars => <>[](~arduPilotOnline /\ AllCmdZero(controls))

\* C37 amended: if from some tick on no frame is ever accepted and ticks
\* whose receive times out keep occurring, then the bridge eventually becomes
\* Offline and its commands are zeroed, assuming ticks keep occurring with a
\* positive time step; ticks that read a bad-magic or duplicate frame neither
\* advance nor reset the timeout counter, so a stream of them alone keeps the
\* bridge Online.
C37_TimeoutsGoOffline ==
  (<>[][~recvOk']_vars /\ []<><<TimeoutTick>>_vars) =>
    <>[](~arduPilotOnline /\ AllCmdZero(controls))

\* after two accepted frames the bridge went Offline under the largest
\* threshold
C37_Witness ==
  /\ ~arduPilotOnline
  /\ "Broken" \in log
  /\ fcu_frame_count = U32(0, 1)
  /\ connectionTimeoutMaxCount = MaxThreshold
  /\ AllCmdZero(controls)

\* the bridge has accepted no frame since its construction
Fresh ==
  /\ ~arduPilotOnline
  /\ fcu_frame_count = U32Minus1
  /\ acceptedSrc = NoAddr

\* C38: on a freshly constructed bridge the first valid-magic frame is
\* accepted for every frame count in 0..2^32-1: no first count collides with
\* the initial value of the last-accepted counter.
C38_FirstFrameAccepted ==
  (Fresh /\ sockQueue # <<>>) =>
    \A pkt \in Packets :
      ValidMagic(pkt) =>
        LET r == ReceiveServoPacket(SERVO_PACKET_SIZE, pkt) IN
        r.ret /\ r.online /\ r.fcount = pkt.frame_count

\* C39: a tick whose time step is <= 0 performs no receive, no actuation and
\* no send, and leaves the online flag, the timeout counter, the last
\* accepted frame count, the remote endpoint and every pending command
\* unchanged; only the last-update timestamp is set (to the time of the call);
\* the datagrams that wait remain queued for a later tick.
C39_NonPositiveStepIdle ==
  /\ [][ ~Tick =>
            /\ UNCHANGED <<arduPilotOnline, connectionTimeoutCount,
                           fcu_frame_count, fcu_frame_rate, fcu_address,
                           fcu_port_out, controls, in_addr>>
            /\ Len(sockQueue') >= Len(sockQueue)
            /\ SubSeq(sockQueue', 1, Len(sockQueue)) = sockQueue
            /\ recvOk' => recvOk
            /\ sent' = sent \/ sent' = <<>>
            /\ applied' = applied \/ applied' = <<>> ]_vars
  /\ [][ lastControllerUpdateTime' < lastControllerUpdateTime =>
            /\ sockQueue' = sockQueue
            /\ log' = {}
            /\ ~recvOk'
            /\ sent' = <<>>
            /\ applied' = <<>>
            /\ actuated' = <<>> ]_vars

\* the bridge is Online with commands pending and a datagram waiting after a
\* call whose time was not later than that of the call before
C39_Witness ==
  /\ arduPilotOnline
  /\ lastControllerUpdateTime = 0
  /\ sockQueue # <<>>
  /\ ~AllCmdZero(controls)
  /\ log = {}
  /\ sent = <<>>
  /\ applied = <<>>

====
